---------------------------- MODULE Spec2Model ----------------------------
(***************************************************************************)
(* Model of the content server of tremulous_client/node/web.js (the second *)
(* program of the file, lines 74-302): asset discovery, the per-file       *)
(* checksum/gzip pipelines of generateManifest, the publication of the     *)
(* manifest by main, and the two request handlers.                         *)
(*                                                                         *)
(* Representation of JavaScript values:                                    *)
(*   - a string that is a file name is a sequence of tokens, a token being *)
(*     either the dot "." or a non-empty run of other characters;          *)
(*   - a path string is the sequence of its "/"-separated segments (what   *)
(*     split("/") returns), so "" is << <<>> >>, "/a" is << <<>>, a >> and  *)
(*     "a/" is << a, <<>> >>; two path strings are equal exactly when      *)
(*     their representations are;                                          *)
(*   - an unsigned 32-bit number (and the result of parseInt) is the pair  *)
(*     <<hi, lo>> of value hi * 65536 + lo with 0 <= lo < 65536.           *)
(***************************************************************************)
EXTENDS Integers, Sequences, FiniteSets, TLC

(***************************************************************************)
(* Bounds of the model.                                                    *)
(***************************************************************************)
\* at most this many files exist under the content root
MaxFiles == 3
\* a 'data' event of a read stream carries at most this many bytes
MaxChunk == 2
\* at most this many writes to files by other programs are followed
MaxFsChanges == 1
\* the clock is followed up to this time
MaxClock == 1

(***************************************************************************)
(* Generic helpers.                                                        *)
(***************************************************************************)
\* a JavaScript value that may be undefined: None, or Some(v)
None == <<>>

Some(v) == <<v>>

Val(o) == o[1]

Last(s) == s[Len(s)]

Front(s) == SubSeq(s, 1, Len(s) - 1)

Range(s) == {s[i] : i \in 1..Len(s)}

IsPrefix(p, s) == Len(p) <= Len(s) /\ SubSeq(s, 1, Len(p)) = p

(***************************************************************************)
(* Strings and paths (Node's posix path module, used at lines 146, 151,    *)
(* 160, 163, 176, 234, 235).                                               *)
(***************************************************************************)
Dot == <<".">>

DotDot == <<".", ".">>

Empty == <<>>

\* path.extname of the last segment of a path string
extname(p) ==
    LET base == Last(p)
        dots == {i \in 1..Len(base) : base[i] = "."}
        startDot == CHOOSE i \in dots : \A j \in dots : j <= i
    IN  IF dots = {} THEN <<>>
        ELSE IF startDot = 1 THEN <<>>
        ELSE IF base = DotDot THEN <<>>
        ELSE SubSeq(base, startDot, Len(base))

isAbsolute(p) == Len(p) >= 2 /\ p[1] = Empty

hasTrailingSeparator(p) == Len(p) >= 2 /\ Last(p) = Empty

\* normalizeString: drops empty and "." segments and resolves ".." against
\* the segment before it; above the start, ".." is kept only when allowed
RECURSIVE normalizeString(_, _, _)
normalizeString(segs, allowAboveRoot, res) ==
    IF segs = <<>> THEN res
    ELSE LET s == Head(segs) IN
         IF s = Empty \/ s = Dot
         THEN normalizeString(Tail(segs), allowAboveRoot, res)
         ELSE IF s = DotDot
         THEN IF res # <<>> /\ Last(res) # DotDot
              THEN normalizeString(Tail(segs), allowAboveRoot, Front(res))
              ELSE IF allowAboveRoot
              THEN normalizeString(Tail(segs), allowAboveRoot, Append(res, s))
              ELSE normalizeString(Tail(segs), allowAboveRoot, res)
         ELSE normalizeString(Tail(segs), allowAboveRoot, Append(res, s))

\* path.normalize
normalize(p) ==
    LET abs == isAbsolute(p)
        trail == hasTrailingSeparator(p)
        segs == normalizeString(p, ~abs, <<>>)
    IN  IF p = <<Empty>> THEN <<Dot>>
        ELSE IF segs = <<>>
        THEN IF abs THEN <<Empty, Empty>>
             ELSE IF trail THEN <<Dot, Empty>> ELSE <<Dot>>
        ELSE (IF abs THEN <<Empty>> ELSE <<>>) \o segs
             \o (IF trail THEN <<Empty>> ELSE <<>>)

\* string concatenation a + "/" + b of two path strings
slashConcat(a, b) == a \o b

\* path.join(a, b): the non-empty arguments joined by "/", normalized
join(a, b) ==
    IF a = <<Empty>> /\ b = <<Empty>> THEN <<Dot>>
    ELSE IF a = <<Empty>> THEN normalize(b)
    ELSE IF b = <<Empty>> THEN normalize(a)
    ELSE normalize(slashConcat(a, b))

\* process.cwd(), an absolute directory
Cwd == <<Empty, <<"srv">>>>

\* path.resolve(a, b): b if absolute, else a + "/" + b, else under the cwd;
\* normalized, with no trailing separator.  The result is given without
\* its leading empty segment, as the list of segments below "/".
resolve(a, b) ==
    LET raw == IF isAbsolute(b) THEN b
               ELSE IF isAbsolute(a) THEN slashConcat(a, b)
               ELSE slashConcat(Cwd, slashConcat(a, b))
    IN  normalizeString(raw, FALSE, <<>>)

RECURSIVE commonLength(_, _)
commonLength(f, t) ==
    IF f = <<>> \/ t = <<>> \/ Head(f) # Head(t) THEN 0
    ELSE 1 + commonLength(Tail(f), Tail(t))

\* path.relative(from, to)
relative(from, to) ==
    LET f == resolve(from, <<Empty>>)
        t == resolve(to, <<Empty>>)
        c == commonLength(f, t)
        out == [i \in 1..(Len(f) - c) |-> DotDot] \o SubSeq(t, c + 1, Len(t))
    IN  IF out = <<>> THEN <<Empty>> ELSE out


(***************************************************************************)
(* Numbers.  An unsigned 32-bit value, and the value parseInt returns, is  *)
(* the pair <<hi, lo>> of value hi * 65536 + lo.                           *)
(***************************************************************************)
Half == 65536

RECURSIVE xorBits(_, _, _)
\* bitwise exclusive or of two numbers of n bits
xorBits(a, b, n) ==
    IF n = 0 THEN 0
    ELSE ((a + b) % 2) + 2 * xorBits(a \div 2, b \div 2, n - 1)

\* the 32-bit values, as two halves
Word == (0..(Half - 1)) \X (0..(Half - 1))

\* x ^ y on 32 bits
xorWord[x \in Word, y \in Word] ==
    <<xorBits(x[1], y[1], 16), xorBits(x[2], y[2], 16)>>

xor32(x, y) == xorWord[x, y]

\* x >>> 1 and x >>> 8
shiftRight1(x) == <<x[1] \div 2, (x[2] \div 2) + (x[1] % 2) * 32768>>

shiftRight8(x) == <<x[1] \div 256, (x[2] \div 256) + (x[1] % 256) * 256>>

\* x ^ -1 on 32 bits
not32(x) == <<65535 - x[1], 65535 - x[2]>>

\* the reflected CRC-32 polynomial 0xEDB88320
PolyHi == 60856

PolyLo == 33568

\* one round of the table's construction: shift, and xor if a bit fell out
crcRound[c \in Word] ==
    IF c[2] % 2 = 1
    THEN xor32(<<PolyHi, PolyLo>>, shiftRight1(c))
    ELSE shiftRight1(c)

RECURSIVE crcTableEntry(_, _)
\* the entry of the CRC table for c, by k more rounds of shift and xor
crcTableEntry(c, k) ==
    IF k = 0 THEN c ELSE crcTableEntry(crcRound[c], k - 1)

\* the table of buffer-crc32, one entry for each byte
crcTable == [b \in 0..255 |-> crcTableEntry(<<0, b>>, 8)]

RECURSIVE crcFold(_, _)
\* the loop of buffer-crc32 over the bytes of buf
crcFold(buf, crc) ==
    IF buf = <<>> THEN crc
    ELSE crcFold(Tail(buf),
                 xor32(crcTable[xorBits(crc[2] % 256, Head(buf), 8)],
                       shiftRight8(crc)))

\* crc32.unsigned(buf, previous)
crc32unsigned(buf, previous) == not32(crcFold(buf, not32(previous)))

\* crc32.unsigned(''), the seed of a pipeline
crc32seed == crc32unsigned(<<>>, <<0, 0>>)

RECURSIVE parseDigits(_, _)
\* the decimal value of a digit string, most significant digit first
parseDigits(ds, acc) ==
    IF ds = <<>> THEN acc
    ELSE LET lo == acc[2] * 10 + Head(ds)
         IN  parseDigits(Tail(ds), <<acc[1] * 10 + (lo \div Half), lo % Half>>)

\* parseInt(s, 10) of a string matched by \d+
parseInt(ds) == parseDigits(ds, <<0, 0>>)

RECURSIVE toDigits(_)
\* the decimal digits of a number, as a client writes it into a URL
toDigits(x) ==
    LET r == (x[1] % 10) * Half + x[2]
        q == <<x[1] \div 10, r \div 10>>
    IN  IF q = <<0, 0>> THEN <<r % 10>> ELSE Append(toDigits(q), r % 10)

\* x + 1 (a number that is not x)
succ32(x) == IF x[2] = 65535 THEN <<x[1] + 1, 0>> ELSE <<x[1], x[2] + 1>>

(***************************************************************************)
(* Configuration (loadConfig, lines 258-274, and line 110) and the files   *)
(* of the machine.                                                         *)
(***************************************************************************)
\* config.root
Root == <<<<"pk3_assets">>>>

\* validAssets
validAssets == <<<<".", "pk3">>, <<".", "run">>, <<".", "sh">>, <<".", "qvm">>>>

GunPk3 == <<"gun", ".", "pk3">>

ReadmeTxt == <<"readme", ".", "txt">>

DotPk3 == <<".", "pk3">>

Weapons == <<"weapons">>

\* the content root as an absolute list of segments
RootDir == resolve(Root, <<Empty>>)

\* the files that may exist under the content root, with the bytes each
\* holds when the program starts
InitialContent ==
    (RootDir \o <<GunPk3>>) :> <<97, 98>>
    @@ (RootDir \o <<Weapons, GunPk3>>) :> <<98>>
    @@ (RootDir \o <<ReadmeTxt>>) :> <<97>>
    @@ (RootDir \o <<Weapons, DotPk3>>) :> <<97>>

CandidateFiles == DOMAIN InitialContent

\* a file next to the content root, outside it
OutsideFile == Front(RootDir) \o <<GunPk3>>

OutsideContent == <<98, 98>>

\* what another program may write into a file
Contents == {<<>>, <<98>>}

\* the order in which readdirSync lists the names of a directory
NameOrder == <<ReadmeTxt, GunPk3, Weapons, DotPk3>>

UnderRoot(abs) == IsPrefix(RootDir, abs) /\ Len(abs) > Len(RootDir)

(***************************************************************************)
(* Asset discovery (getAssets, lines 138-165).                             *)
(***************************************************************************)
\* fs.readdirSync(dir): the names directly under dir, in listing order
readdirSync(fsys, dir) ==
    LET d == resolve(dir, <<Empty>>)
        present(n) == \E f \in DOMAIN fsys : IsPrefix(d \o <<n>>, f)
    IN  SelectSeq(NameOrder, present)

\* entry.isDirectory() and entry.isFile() of the entry named n of dir
isDirectory(fsys, dir, n) ==
    LET d == resolve(dir, <<Empty>>)
    IN  \E f \in DOMAIN fsys : IsPrefix(d \o <<n>>, f) /\ Len(f) > Len(d) + 1

isFile(fsys, dir, n) == (resolve(dir, <<Empty>>) \o <<n>>) \in DOMAIN fsys

\* a discovery that lists the files directly in dir and enters no directory
readDirFlat(fsys, dir) ==
    LET names == SelectSeq(readdirSync(fsys, dir),
                           LAMBDA n : isFile(fsys, dir, n))
    IN  [i \in 1..Len(names) |-> relative(Root, join(dir, <<names[i]>>))]

RECURSIVE readDirRecursive(_, _)
RECURSIVE readEntries(_, _, _)
\* the loop of lines 144-154 over the entries of dir
readEntries(fsys, dir, entries) ==
    IF entries = <<>> THEN <<>>
    ELSE LET name == Head(entries)
             fullPath == join(dir, <<name>>)
             found == IF isDirectory(fsys, dir, name)
                      THEN readDirRecursive(fsys, fullPath)
                      ELSE IF isFile(fsys, dir, name)
                      THEN <<relative(Root, fullPath)>>
                      ELSE <<>>
         IN  found \o readEntries(fsys, dir, Tail(entries))

readDirRecursive(fsys, dir) == readEntries(fsys, dir, readdirSync(fsys, dir))

\* validAssets.indexOf(ext) !== -1
isValidAsset(file) == extname(file) \in Range(validAssets)

\* getAssets(): the files found, filtered by extension, joined to the root
getAssets(fsys) ==
    LET files == readDirRecursive(fsys, Root)
        kept == SelectSeq(files, isValidAsset)
    IN  [i \in 1..Len(kept) |-> join(Root, kept[i])]

(***************************************************************************)
(* State.                                                                  *)
(***************************************************************************)
VARIABLES
    fs,                         \* the files of the machine: path -> bytes
    fsChanges,                  \* how many writes by other programs happened
    modified,                   \* the files written since the build began
    now,                        \* the clock (Date.now(), new Date())
    pc,                         \* "start", "building", "listening", "crashed"
    assets,                     \* generateManifest: var assets
    start,                      \* generateManifest: var start
    pipes,                      \* per file: the variables of the iteratee
    results,                    \* async.map: the result of each iteratee
    readErrors,                 \* the files whose read stream failed
    discoveryError,             \* readdirSync threw inside getAssets
    delivered,                  \* the calls of generateManifest's callback
    currentManifest,            \* line 112
    currentManifestTimestamp,   \* line 111
    exchange,                   \* the request being answered and its response
    rejected                    \* per cause, the last response to a rejection

vars == <<fs, fsChanges, modified, now, pc, assets, start, pipes, results,
          readErrors, discoveryError, delivered, currentManifest,
          currentManifestTimestamp, exchange, rejected>>

buildVars == <<assets, start, pipes, results>>

storeVars == <<currentManifest, currentManifestTimestamp>>

errVars == <<readErrors, discoveryError>>

NoExchange ==
    [kind |-> "none", basedir |-> <<>>, digits |-> <<>>, basename |-> <<>>,
     status |-> 0, file |-> <<>>, bytes |-> <<>>, json |-> <<>>,
     lastModified |-> <<>>, cacheControl |-> ""]

Causes == {"path", "checksum"}

Init ==
    /\ \E present \in SUBSET CandidateFiles :
          /\ Cardinality(present) <= MaxFiles
          /\ fs = [f \in present \cup {OutsideFile} |->
                      IF f = OutsideFile THEN OutsideContent
                      ELSE InitialContent[f]]
    /\ fsChanges = 0
    /\ modified = {}
    /\ now = 0
    /\ pc = "start"
    /\ assets = <<>>
    /\ start = None
    /\ pipes = <<>>
    /\ results = <<>>
    /\ readErrors = {}
    /\ discoveryError = FALSE
    /\ delivered = <<>>
    /\ currentManifest = None
    /\ currentManifestTimestamp = None
    /\ exchange = NoExchange
    /\ rejected = [c \in Causes |-> None]

(***************************************************************************)
(* The environment: time passes, other programs write files.               *)
(***************************************************************************)
\* the clock is read for the last time when the manifest is published
Tick ==
    /\ now < MaxClock
    /\ pc \in {"start", "building"}
    /\ now' = now + 1
    /\ UNCHANGED <<fs, fsChanges, modified, pc, buildVars, errVars,
                   delivered, storeVars, exchange, rejected>>

\* only writes to the files the program reads are followed
WriteFile(f, bytes) ==
    /\ fsChanges < MaxFsChanges
    /\ pc # "crashed"
    /\ f \in DOMAIN fs
    /\ UnderRoot(f)
    /\ isValidAsset(f)
    /\ fs[f] # bytes
    /\ fs' = [fs EXCEPT ![f] = bytes]
    /\ fsChanges' = fsChanges + 1
    /\ modified' = IF pc = "start" THEN modified ELSE modified \cup {f}
    /\ UNCHANGED <<now, pc, buildVars, errVars, delivered, storeVars,
                   exchange, rejected>>

(***************************************************************************)
(* main (lines 276-302) and generateManifest (lines 167-218).              *)
(***************************************************************************)
\* a callback that does not throw: it publishes and listens on an error too
mainCallbackNoThrow(err, manifest) ==
    /\ delivered' = Append(delivered, [err |-> err, manifest |-> manifest])
    /\ currentManifestTimestamp' = Some(now)
    /\ currentManifest' = manifest
    /\ pc' = "listening"

\* a callback that publishes the timestamp and not the manifest
mainCallbackTorn(err, manifest) ==
    /\ delivered' = Append(delivered, [err |-> err, manifest |-> manifest])
    /\ IF err
       THEN /\ pc' = "crashed"
            /\ UNCHANGED storeVars
       ELSE /\ currentManifestTimestamp' = Some(now)
            /\ UNCHANGED currentManifest
            /\ pc' = "listening"

\* a callback that stamps the manifest with the time the build started
mainCallbackStartTime(err, manifest) ==
    /\ delivered' = Append(delivered, [err |-> err, manifest |-> manifest])
    /\ IF err
       THEN /\ pc' = "crashed"
            /\ UNCHANGED storeVars
       ELSE /\ currentManifestTimestamp' = start
            /\ currentManifest' = manifest
            /\ pc' = "listening"

\* a callback that logs an error and lets the process go on
mainCallbackLogOnly(err, manifest) ==
    /\ delivered' = Append(delivered, [err |-> err, manifest |-> manifest])
    /\ IF err
       THEN UNCHANGED <<pc, storeVars>>
       ELSE /\ currentManifestTimestamp' = Some(now)
            /\ currentManifest' = manifest
            /\ pc' = "listening"

\* the callback main passes to generateManifest (lines 287-301): an error
\* is thrown and ends the process; a manifest is published, then the
\* server starts to listen
mainCallback(err, manifest) ==
    /\ delivered' = Append(delivered, [err |-> err, manifest |-> manifest])
    /\ IF err
       THEN /\ pc' = "crashed"
            /\ UNCHANGED storeVars
       ELSE /\ currentManifestTimestamp' = Some(now)
            /\ currentManifest' = manifest
            /\ pc' = "listening"

\* the variables of one iteratee when it starts (lines 176-188), with what
\* its stream has delivered (read) and how many bytes its encoder has
\* emitted (gzout) so far
newPipe(file) ==
    [file |-> file,
     read |-> <<>>,
     gzout |-> 0,
     name |-> relative(Root, file),
     crc |-> crc32seed,
     compressed |-> 0,
     size |-> 0,
     pos |-> 0,
     stream |-> "open",
     gzin |-> 0,
     gzhdr |-> FALSE,
     gzip |-> "open"]

\* async.map is done when every iteratee has called back
mapComplete(res) == \A i \in DOMAIN res : res[i] # None

\* the array async.map hands to its final callback
mapResults(res) == [i \in DOMAIN res |-> Val(res[i])]

\* a generateManifest that catches the exception of discovery and goes on
\* with no assets
generateManifestSwallow ==
    /\ pc = "start"
    /\ \E readable \in BOOLEAN :
          LET found == IF readable THEN getAssets(fs) ELSE <<>> IN
          /\ discoveryError' = ~readable
          /\ assets' = found
          /\ start' = Some(now)
          /\ pipes' = [i \in DOMAIN found |-> newPipe(found[i])]
          /\ results' = [i \in DOMAIN found |-> None]
          /\ IF found = <<>>
             THEN mainCallback(FALSE, Some(<<>>))
             ELSE /\ pc' = "building"
                  /\ UNCHANGED <<delivered, storeVars>>
    /\ UNCHANGED <<fs, fsChanges, modified, now, readErrors, exchange, rejected>>

\* main calls generateManifest: discovery, then every iteratee is started
generateManifest ==
    /\ pc = "start"
    /\ \E readable \in BOOLEAN :
          IF ~readable
          THEN \* readdirSync throws (lines 142, 157): the process ends
               /\ pc' = "crashed"
               /\ discoveryError' = TRUE
               /\ UNCHANGED <<buildVars, delivered, storeVars>>
          ELSE LET found == getAssets(fs) IN
               /\ discoveryError' = FALSE
               /\ assets' = found
               /\ start' = Some(now)
               /\ pipes' = [i \in DOMAIN found |-> newPipe(found[i])]
               /\ results' = [i \in DOMAIN found |-> None]
               /\ IF found = <<>>
                  THEN mainCallback(FALSE, Some(<<>>))
                  ELSE /\ pc' = "building"
                       /\ UNCHANGED <<delivered, storeVars>>
    /\ UNCHANGED <<fs, fsChanges, modified, now, readErrors, exchange, rejected>>

(***************************************************************************)
(* The pipeline of one file (lines 173-211).  The gzip encoder is followed *)
(* by the length of what it emits only: a 10-byte header, the deflate      *)
(* body, and the final block and trailer; the body is counted as stored    *)
(* bytes, one per byte written.                                            *)
(***************************************************************************)
GzipHeader == 10

GzipTrailer == 10

Min(a, b) == IF a <= b THEN a ELSE b

\* the bytes of the file a pipeline reads, as they are now
fileBytes(p) == fs[resolve(p.file, <<Empty>>)]

\* a data handler that does not carry the checksum from chunk to chunk
onStreamDataUnseeded(p, data) ==
    [p EXCEPT !.crc = crc32unsigned(data, crc32seed),
              !.size = p.size + Len(data),
              !.gzin = p.gzin + Len(data),
              !.pos = p.pos + Len(data)]

\* stream.on('data') (lines 193-197)
onStreamData(p, data) ==
    [p EXCEPT !.crc = crc32unsigned(data, p.crc),
              !.size = p.size + Len(data),
              !.gzin = p.gzin + Len(data),
              !.pos = p.pos + Len(data)]

\* an 'end' handler that does not end the encoder
onStreamEndNoFinish(p) == [p EXCEPT !.stream = "ended"]

\* stream.on('end') (lines 198-200): gzip.end()
onStreamEnd(p) == [p EXCEPT !.stream = "ended", !.gzip = "ending"]

\* a handler that keeps the length of the last chunk only
onGzipDataLast(p, n) == [p EXCEPT !.compressed = n]

\* gzip.on('data') (lines 202-204), for a chunk of n bytes
onGzipData(p, n) == [p EXCEPT !.compressed = p.compressed + n]

\* an entry that carries the uncompressed size as well
manifestEntryWithSize(p) ==
    [name |-> p.name, compressed |-> p.compressed, checksum |-> p.crc,
     size |-> p.size]

\* the object handed to cb by gzip.on('end') (lines 205-211)
manifestEntry(p) ==
    [name |-> p.name, compressed |-> p.compressed, checksum |-> p.crc]

\* an error handler that ends the encoder as if the file had been read
onStreamErrorAsEnd(i) ==
    /\ pipes' = [pipes EXCEPT ![i] = [@ EXCEPT !.stream = "ended",
                                               !.gzip = "ending"]]
    /\ UNCHANGED <<results, pc, delivered, storeVars>>

\* stream.on('error') (lines 190-192): the error goes to generateManifest's
\* callback, not to the iteratee's
onStreamError(i) ==
    /\ mainCallback(TRUE, None)
    /\ UNCHANGED <<pipes, results>>

\* a data event with one checksum accumulator shared by all the pipelines
streamDataSharedCrc(i, k) ==
    /\ pc = "building"
    /\ pipes[i].stream = "open"
    /\ k \in 1..Min(MaxChunk, Len(fileBytes(pipes[i])) - pipes[i].pos)
    /\ LET p == pipes[i]
           data == SubSeq(fileBytes(p), p.pos + 1, p.pos + k)
           q == [onStreamData(p, data) EXCEPT !.read = p.read \o data]
       IN  pipes' = [j \in DOMAIN pipes |->
                        IF j = i THEN q ELSE [pipes[j] EXCEPT !.crc = q.crc]]
    /\ UNCHANGED <<fs, fsChanges, modified, now, pc, assets, start, results,
                   errVars, delivered, storeVars, exchange, rejected>>

streamData(i, k) ==
    /\ pc = "building"
    /\ pipes[i].stream = "open"
    /\ k \in 1..Min(MaxChunk, Len(fileBytes(pipes[i])) - pipes[i].pos)
    /\ LET p == pipes[i]
           data == SubSeq(fileBytes(p), p.pos + 1, p.pos + k)
       IN  pipes' = [pipes EXCEPT ![i] =
                        [onStreamData(p, data) EXCEPT !.read = p.read \o data]]
    /\ UNCHANGED <<fs, fsChanges, modified, now, pc, assets, start, results,
                   errVars, delivered, storeVars, exchange, rejected>>

streamEnd(i) ==
    /\ pc = "building"
    /\ pipes[i].stream = "open"
    /\ pipes[i].pos >= Len(fileBytes(pipes[i]))
    /\ pipes' = [pipes EXCEPT ![i] = onStreamEnd(pipes[i])]
    /\ UNCHANGED <<fs, fsChanges, modified, now, pc, assets, start, results,
                   errVars, delivered, storeVars, exchange, rejected>>

streamError(i) ==
    /\ pc = "building"
    /\ pipes[i].stream = "open"
    /\ readErrors' = readErrors \cup {i}
    /\ onStreamError(i)
    /\ UNCHANGED <<fs, fsChanges, modified, now, assets, start, discoveryError,
                   exchange, rejected>>

\* the encoder emits what it holds; after gzip.end() that is all the rest
gzipData(i) ==
    /\ pc = "building"
    /\ \/ pipes[i].gzip = "open" /\ pipes[i].gzin > 0
       \/ pipes[i].gzip = "ending"
    /\ LET p == pipes[i]
           n == (IF p.gzhdr THEN 0 ELSE GzipHeader) + p.gzin
                + (IF p.gzip = "ending" THEN GzipTrailer ELSE 0)
       IN  pipes' = [pipes EXCEPT ![i] =
                        [onGzipData(p, n) EXCEPT
                            !.gzin = 0, !.gzhdr = TRUE,
                            !.gzout = p.gzout + n,
                            !.gzip = IF p.gzip = "ending" THEN "flushed"
                                     ELSE "open"]]
    /\ UNCHANGED <<fs, fsChanges, modified, now, pc, assets, start, results,
                   errVars, delivered, storeVars, exchange, rejected>>

\* an 'end' handler of a build that writes each finished entry into the
\* store itself
gzipEndPublishing(i) ==
    /\ pc = "building"
    /\ pipes[i].gzip = "flushed"
    /\ pipes' = [pipes EXCEPT ![i].gzip = "ended"]
    /\ results' = [results EXCEPT ![i] = Some(manifestEntry(pipes[i]))]
    /\ IF mapComplete(results')
       THEN mainCallback(FALSE, Some(mapResults(results')))
       ELSE /\ currentManifest' = Some(<<manifestEntry(pipes[i])>>)
            /\ UNCHANGED <<pc, delivered, currentManifestTimestamp>>
    /\ UNCHANGED <<fs, fsChanges, modified, now, assets, start, errVars,
                   exchange, rejected>>

\* an 'end' handler that stores the entries in the order they arrive
gzipEndPush(i) ==
    /\ pc = "building"
    /\ pipes[i].gzip = "flushed"
    /\ pipes' = [pipes EXCEPT ![i].gzip = "ended"]
    /\ LET free == {j \in DOMAIN results : results[j] = None}
           slot == CHOOSE j \in free : \A h \in free : j <= h
       IN  results' = [results EXCEPT ![slot] = Some(manifestEntry(pipes[i]))]
    /\ IF mapComplete(results')
       THEN mainCallback(FALSE, Some(mapResults(results')))
       ELSE UNCHANGED <<pc, delivered, storeVars>>
    /\ UNCHANGED <<fs, fsChanges, modified, now, assets, start, errVars,
                   exchange, rejected>>

\* gzip.on('end'): cb(null, entry); the last one completes async.map, whose
\* final callback (lines 212-217) calls generateManifest's callback
gzipEnd(i) ==
    /\ pc = "building"
    /\ pipes[i].gzip = "flushed"
    /\ pipes' = [pipes EXCEPT ![i].gzip = "ended"]
    /\ results' = [results EXCEPT ![i] = Some(manifestEntry(pipes[i]))]
    /\ IF mapComplete(results')
       THEN mainCallback(FALSE, Some(mapResults(results')))
       ELSE UNCHANGED <<pc, delivered, storeVars>>
    /\ UNCHANGED <<fs, fsChanges, modified, now, assets, start, errVars,
                   exchange, rejected>>

(***************************************************************************)
(* The request handlers (lines 220-256) behind the routes of lines         *)
(* 283-284.  A request of the asset route is given by what the route's     *)
(* expression captures: the directory prefix ("" or ending in "/"), the    *)
(* digits of the checksum and the base name.                               *)
(***************************************************************************)
BaseDirs ==
    { <<Empty>>,
      <<Weapons, Empty>>,
      <<DotDot, Empty>>,
      <<Weapons, DotDot, Empty>>,
      <<Empty, <<"srv">>, Empty>> }

BaseNames == { <<GunPk3>>, <<DotDot, GunPk3>> }

\* the checksums a client asks with: those of the manifest it fetched,
\* the same with a leading zero, and each of them plus one
RequestDigits ==
    LET sums == IF currentManifest = None THEN {}
                ELSE {Val(currentManifest)[i].checksum :
                         i \in DOMAIN Val(currentManifest)}
    IN  {toDigits(c) : c \in sums}
        \cup {<<0>> \o toDigits(c) : c \in sums}
        \cup {toDigits(succ32(c)) : c \in sums}

\* a test that compares the base names only
assetMatchesBaseName(entry, relativePath, checksum) ==
    Last(entry.name) = Last(relativePath) /\ entry.checksum = checksum

\* the test of line 242
assetMatches(entry, relativePath, checksum) ==
    entry.name = relativePath /\ entry.checksum = checksum

\* a lookup by name alone
findAssetByName(manifest, relativePath, checksum) ==
    LET hits == {i \in DOMAIN manifest : manifest[i].name = relativePath}
    IN  IF hits = {} THEN 0 ELSE CHOOSE i \in hits : \A j \in hits : i <= j

\* the loop of lines 238-246: the index of the first matching entry, or 0
findAsset(manifest, relativePath, checksum) ==
    LET hits == {i \in DOMAIN manifest :
                    assetMatches(manifest[i], relativePath, checksum)}
    IN  IF hits = {} THEN 0 ELSE CHOOSE i \in hits : \A j \in hits : i <= j

\* lines 231-235
requestPath(basedir, basename) == join(basedir, basename)

requestFile(basedir, basename) == resolve(Root, requestPath(basedir, basename))

\* a response that tells an unknown path (404) from a wrong checksum (400)
assetResponseTelling(manifest, basedir, digits, basename) ==
    LET relativePath == requestPath(basedir, basename)
        absolutePath == requestFile(basedir, basename)
        checksum == parseInt(digits)
        asset == findAsset(manifest, relativePath, checksum)
        known == \E i \in DOMAIN manifest : manifest[i].name = relativePath
        req == [NoExchange EXCEPT !.kind = "asset", !.basedir = basedir,
                                  !.digits = digits, !.basename = basename]
    IN  IF asset = 0
        THEN [req EXCEPT !.status = IF known THEN 400 ELSE 404]
        ELSE [req EXCEPT !.file = absolutePath,
                         !.cacheControl = "max-age=Infinity"]

\* the response handleAsset starts (lines 248-255): status 400 with no
\* body, or status 0 (not sent yet) and the file res.sendFile is given
assetResponse(manifest, basedir, digits, basename) ==
    LET relativePath == requestPath(basedir, basename)
        absolutePath == requestFile(basedir, basename)
        checksum == parseInt(digits)
        asset == findAsset(manifest, relativePath, checksum)
        req == [NoExchange EXCEPT !.kind = "asset", !.basedir = basedir,
                                  !.digits = digits, !.basename = basename]
    IN  IF asset = 0
        THEN [req EXCEPT !.status = 400]
        ELSE [req EXCEPT !.file = absolutePath,
                         !.cacheControl = "max-age=Infinity"]

\* why a request is rejected: the path names no entry, or it names one
\* and the checksum is not that entry's
rejectionCause(manifest, relativePath) ==
    IF \E i \in DOMAIN manifest : manifest[i].name = relativePath
    THEN "checksum" ELSE "path"

\* what a client is sent of a response
Reply(x) == [status |-> x.status, bytes |-> x.bytes, json |-> x.json,
             lastModified |-> x.lastModified, cacheControl |-> x.cacheControl]

\* the response of handleManifest (lines 223-226); reading an undefined
\* timestamp throws, which Express answers with status 500
manifestResponse(manifest, timestamp) ==
    IF timestamp = None
    THEN [NoExchange EXCEPT !.kind = "manifest", !.status = 500]
    ELSE [NoExchange EXCEPT !.kind = "manifest", !.status = 200,
                            !.cacheControl = "public, max-age=60, must-revalidate",
                            !.lastModified = timestamp,
                            !.json = IF manifest = None THEN <<>>
                                     ELSE Val(manifest)]

handleManifest ==
    /\ pc = "listening"
    /\ exchange.kind = "none"
    /\ exchange' = manifestResponse(currentManifest, currentManifestTimestamp)
    /\ UNCHANGED <<fs, fsChanges, modified, now, pc, buildVars, errVars,
                   delivered, storeVars, rejected>>

handleAsset(basedir, digits, basename) ==
    /\ pc = "listening"
    /\ exchange.kind = "none"
    /\ IF currentManifest = None
       THEN \* currentManifest.length throws: Express answers with 500
            /\ exchange' = [NoExchange EXCEPT !.kind = "asset", !.status = 500]
            /\ UNCHANGED rejected
       ELSE LET x == assetResponse(Val(currentManifest), basedir, digits, basename)
                cause == rejectionCause(Val(currentManifest),
                                        requestPath(basedir, basename))
            IN  /\ exchange' = x
                /\ rejected' = IF x.status = 0 THEN rejected
                               ELSE [rejected EXCEPT ![cause] = Some(Reply(x))]
    /\ UNCHANGED <<fs, fsChanges, modified, now, pc, buildVars, errVars,
                   delivered, storeVars>>

\* res.sendFile streams the file after the handler has returned; a path
\* that names no file is answered with status 404
sendFile ==
    /\ exchange.kind = "asset"
    /\ exchange.status = 0
    /\ exchange' = IF exchange.file \in DOMAIN fs
                   THEN [exchange EXCEPT !.status = 200,
                                         !.bytes = fs[exchange.file]]
                   ELSE [exchange EXCEPT !.status = 404]
    /\ UNCHANGED <<fs, fsChanges, modified, now, pc, buildVars, errVars,
                   delivered, storeVars, rejected>>

\* the response has been sent; the next request is looked at
finish ==
    /\ exchange.kind # "none"
    /\ exchange.status # 0
    /\ exchange' = NoExchange
    /\ UNCHANGED <<fs, fsChanges, modified, now, pc, buildVars, errVars,
                   delivered, storeVars, rejected>>

(***************************************************************************)
(* The specification.                                                      *)
(***************************************************************************)
Next ==
    \/ Tick
    \/ \E f \in CandidateFiles, bytes \in Contents : WriteFile(f, bytes)
    \/ generateManifest
    \/ \E i \in DOMAIN pipes, k \in 1..MaxChunk : streamData(i, k)
    \/ \E i \in DOMAIN pipes : streamEnd(i)
    \/ \E i \in DOMAIN pipes : streamError(i)
    \/ \E i \in DOMAIN pipes : gzipData(i)
    \/ \E i \in DOMAIN pipes : gzipEnd(i)
    \/ handleManifest
    \/ \E basedir \in BaseDirs, digits \in RequestDigits, basename \in BaseNames :
          handleAsset(basedir, digits, basename)
    \/ sendFile
    \/ finish

Spec == Init /\ [][Next]_vars

\* the events of the read streams: 'data', 'end', 'error'
StreamStep ==
    \E i \in DOMAIN pipes :
       \/ \E k \in 1..MaxChunk : streamData(i, k)
       \/ streamEnd(i)
       \/ streamError(i)

\* the events of the encoders: 'data', 'end'
EncoderStep == \E i \in DOMAIN pipes : gzipData(i) \/ gzipEnd(i)

\* the event loop delivers the pending event of a stream and of an encoder
LiveSpec == Spec /\ WF_vars(StreamStep) /\ WF_vars(EncoderStep)

(***************************************************************************)
(* Properties.                                                             *)
(***************************************************************************)
\* the published manifest, as a sequence of entries (empty before it is set)
Manifest == IF currentManifest = None THEN <<>> ELSE Val(currentManifest)

\* an asset request has been looked at by handleAsset
AssetHandled == exchange.kind = "asset"

\* the path and the file the request in hand asks for
AskedPath == requestPath(exchange.basedir, exchange.basename)

RECURSIVE stripZeros(_)
stripZeros(ds) ==
    IF Len(ds) > 1 /\ Head(ds) = 0 THEN stripZeros(Tail(ds)) ELSE ds

\* digit string ds is a decimal writing of the number c
Denotes(ds, c) == stripZeros(ds) = toDigits(c)

\* the request in hand names entry e by path and by checksum
Names(e) == e.name = AskedPath /\ Denotes(exchange.digits, e.checksum)

\* handleAsset gave the file to res.sendFile
Served == AssetHandled /\ exchange.file # <<>>

\* C1: handleAsset gives a file to res.sendFile if and only if the current
\* manifest has an entry whose name is the path joined from the request's
\* directory prefix and base name and whose checksum is the number the
\* request's digits write; every other request is answered 400, no file
C1_ServedIffPathAndChecksumMatch ==
    AssetHandled =>
        /\ Served <=> \E i \in DOMAIN Manifest : Names(Manifest[i])
        /\ ~Served <=> exchange.status = 400
        /\ ~Served => exchange.bytes = <<>>

\* a request whose path is one entry's and whose checksum is another
\* entry's has been rejected
C1_Witness ==
    /\ AssetHandled
    /\ exchange.status = 400
    /\ \E i, j \in DOMAIN Manifest :
          /\ Manifest[i].name = AskedPath
          /\ Denotes(exchange.digits, Manifest[j].checksum)

\* C2: the file given to res.sendFile lies under the content root and is
\* the file a manifest entry names, also when the request's path holds
\* up-level segments
C2_ServedFileUnderRoot ==
    Served =>
        /\ UnderRoot(exchange.file)
        /\ \E i \in DOMAIN Manifest :
              exchange.file = RootDir \o Manifest[i].name

HasUpLevel(x) == DotDot \in Range(x.basedir) \cup Range(x.basename)

\* a request with an up-level segment has been served
C2_Witness == Served /\ exchange.status = 200 /\ HasUpLevel(exchange)

\* C3: the responses sent to a request rejected for an unknown path and to
\* one rejected for a wrong checksum are the same: status 400 and no body
C3_RejectionsIndistinguishable ==
    \A c, d \in Causes :
        rejected[c] # None /\ rejected[d] # None =>
            /\ rejected[c] = rejected[d]
            /\ Val(rejected[c]).status = 400
            /\ Val(rejected[c]).bytes = <<>>

\* both kinds of rejection have happened
C3_Witness == rejected["path"] # None /\ rejected["checksum"] # None

\* the checksum of the bytes sent is the checksum asked for
ChecksumReproduced ==
    crc32unsigned(exchange.bytes, crc32seed) = parseInt(exchange.digits)

\* C4 as claimed: the bytes of every served asset have the checksum of the
\* request, whatever was written to the files since the build
C4_Claimed_RoundTrip ==
    (Served /\ exchange.status = 200) => ChecksumReproduced

\* C4, amended: the bytes of a served asset have the checksum of the
\* request when the file was not written since the build began
C4_RoundTripUnmodified ==
    (Served /\ exchange.status = 200 /\ exchange.file \notin modified)
        => ChecksumReproduced

\* a file of two bytes, not written since the build, has been served
C4_Witness ==
    /\ Served
    /\ exchange.status = 200
    /\ exchange.file \notin modified
    /\ Len(exchange.bytes) = 2

\* the files under the root whose extension is allow-listed, by their path
\* relative to the root
AllowListed ==
    {SubSeq(f, Len(RootDir) + 1, Len(f)) :
        f \in {g \in DOMAIN fs :
                  UnderRoot(g) /\ \E k \in DOMAIN validAssets :
                                     extname(g) = validAssets[k]}}

\* C5: a built manifest has exactly one entry per allow-listed file under
\* the root, at any depth, named by its relative path, and no other entry
C5_ManifestIsAllowListedFiles ==
    currentManifest # None =>
        /\ {Manifest[i].name : i \in DOMAIN Manifest} = AllowListed
        /\ Len(Manifest) = Cardinality(AllowListed)

\* a manifest was built over a root with a nested asset, a file with
\* another extension and a file named by an extension alone
C5_Witness ==
    /\ currentManifest # None
    /\ \E i \in DOMAIN Manifest : Len(Manifest[i].name) = 2
    /\ (RootDir \o <<ReadmeTxt>>) \in DOMAIN fs
    /\ (RootDir \o <<Weapons, DotPk3>>) \in DOMAIN fs

ManifestServed == exchange.kind = "manifest" /\ exchange.status = 200

C7_NoRequestBeforePublish ==
    (pc = "listening" \/ exchange.kind # "none") =>
        /\ currentManifest # None
        /\ currentManifestTimestamp # None
        /\ \E k \in DOMAIN delivered : ~delivered[k].err

\* a manifest request has been answered
C7_Witness == ManifestServed /\ exchange.lastModified # None

\* C8: the manifest and its timestamp are set together, and what a reader
\* is sent is that pair, with an entry for every discovered file
C8_PairPublishedWhole ==
    /\ (currentManifest = None) <=> (currentManifestTimestamp = None)
    /\ ManifestServed =>
          /\ exchange.json = Manifest
          /\ exchange.lastModified = currentManifestTimestamp
          /\ Len(exchange.json) = Len(assets)

\* a reader was sent a manifest of two entries
C8_Witness ==
    /\ ManifestServed
    /\ Len(exchange.json) = 2

\* C9: once a read stream of the build has failed, no manifest is
\* delivered or published and the server never listens
C9_FailedBuildPublishesNothing ==
    readErrors # {} =>
        /\ currentManifest = None
        /\ currentManifestTimestamp = None
        /\ \A k \in DOMAIN delivered : delivered[k].err
        /\ pc = "crashed"

\* a read failed after a sibling pipeline had finished
C9_Witness ==
    /\ readErrors # {}
    /\ \E i \in DOMAIN results : results[i] # None

\* the pipelines started and not finished
InFlight == {i \in DOMAIN pipes : pipes[i].gzip # "ended"}

\* C10 as claimed: whatever concurrency bound is configured, no more
\* pipelines than that are in flight
C10_Claimed_BoundedConcurrency ==
    \A limit \in 1..MaxFiles : Cardinality(InFlight) <= limit

\* C11 as claimed: the timestamp published with a manifest is the time at
\* which its build started
C11_Claimed_TimestampIsBuildStart ==
    currentManifestTimestamp # None => currentManifestTimestamp = start

\* C11, amended: the timestamp is the time of the clock in the step that
\* publishes the manifest, when the build has completed; the time the
\* build started is not published
C11_TimestampIsPublishTime ==
    [][currentManifestTimestamp' # currentManifestTimestamp =>
          /\ currentManifestTimestamp' = Some(now)
          /\ currentManifest' # currentManifest
          /\ pc' = "listening"]_vars

\* a manifest request was answered with a Last-Modified later than the
\* start of the build
C11_Witness ==
    /\ ManifestServed
    /\ exchange.lastModified = currentManifestTimestamp
    /\ Val(exchange.lastModified) > Val(start)

\* C12: the callback of the build is called at most once; after a read
\* failure it has been called exactly once, with the error and no
\* manifest, however many pipelines were still running
C12_OutcomeReportedOnce ==
    /\ Len(delivered) <= 1
    /\ readErrors # {} =>
          /\ Cardinality(readErrors) = 1
          /\ delivered = <<[err |-> TRUE, manifest |-> None]>>
    /\ pc = "listening" =>
          delivered = <<[err |-> FALSE, manifest |-> currentManifest]>>

\* a read failed while the stream of a sibling pipeline was still open
C12_Witness ==
    /\ readErrors # {}
    /\ \E j \in DOMAIN pipes :
          j \notin readErrors /\ pipes[j].stream = "open"

\* C13: an entry is handed over only when the stream has ended and the
\* encoder has emitted everything, final block and trailer included; its
\* checksum is that of all the bytes the stream delivered, in order, and
\* its compressed size is the number of bytes the encoder emitted
C13_EntryAfterEndAndFlush ==
    \A i \in DOMAIN results :
        results[i] # None =>
            LET p == pipes[i]
                e == Val(results[i])
            IN  /\ p.stream = "ended"
                /\ p.gzip = "ended"
                /\ p.gzin = 0
                /\ e.checksum = crc32unsigned(p.read, crc32seed)
                /\ e.compressed = p.gzout
                /\ p.gzout = GzipHeader + Len(p.read) + GzipTrailer

\* an entry was handed over for a file of two bytes
C13_Witness ==
    \E i \in DOMAIN results :
        results[i] # None /\ Len(pipes[i].read) = 2

\* C14: while the pipelines of a build run, interleaved in any way, the
\* checksum each one holds is the checksum, from the initial seed, of the
\* bytes its own stream has delivered, and so is the checksum of its entry
C14_ChecksumOfOwnChunksOnly ==
    pc = "building" =>
        \A i \in DOMAIN pipes :
            /\ pipes[i].crc = crc32unsigned(pipes[i].read, crc32seed)
            /\ pipes[i].read = <<>> => pipes[i].crc = <<0, 0>>
            /\ results[i] # None => Val(results[i]).checksum = pipes[i].crc

\* two pipelines are under way: one has read the first of its two bytes
\* after the other had read from its file
C14_Witness ==
    /\ pc = "building"
    /\ \E i, j \in DOMAIN pipes :
          /\ i # j
          /\ pipes[i].stream = "open"
          /\ Len(pipes[i].read) = 1
          /\ Len(fileBytes(pipes[i])) = 2
          /\ pipes[j].read # <<>>

\* the step in which main's callback is handed a manifest and publishes it
Publishes ==
    /\ Len(delivered') = Len(delivered) + 1
    /\ ~Last(delivered').err
    /\ currentManifest' = Last(delivered').manifest
    /\ pc' = "listening"

\* C15: the manifest and the timestamp of the store change only in the
\* step that publishes; the steps of a build, a failing build, and the
\* handling of any request leave both as they are
C15_OnlyPublishChangesStore ==
    [][/\ storeVars' # storeVars => Publishes
       /\ (pipes' # pipes \/ readErrors' # readErrors \/ exchange' # exchange)
             /\ Len(delivered') = Len(delivered)
          => storeVars' = storeVars]_vars

\* an asset was served and another request rejected, and the store holds
\* what the build delivered
C15_Witness ==
    /\ Served
    /\ exchange.status = 200
    /\ rejected["checksum"] # None
    /\ delivered # <<>>
    /\ currentManifest = delivered[1].manifest

\* the initial build failed: discovery threw, or a file could not be read
BuildFailed == discoveryError \/ readErrors # {}

\* C16: once the initial build has failed, by an error of discovery or by
\* a read error, the process has ended: it is not listening, it has
\* answered no request, and the store holds no manifest and no timestamp
C16_FailedBuildNeverListens ==
    BuildFailed =>
       /\ pc = "crashed"
       /\ exchange = NoExchange
       /\ \A c \in Causes : rejected[c] = None
       /\ currentManifest = None
       /\ currentManifestTimestamp = None

\* discovery threw although the root held assets
C16_Witness ==
    /\ discoveryError
    /\ pc = "crashed"
    /\ \E f \in DOMAIN fs : UnderRoot(f) /\ isValidAsset(f)

\* the call of generateManifest has returned
BuildStarted == pc # "start"

\* the caller has the outcome: the exception of discovery, an error, or a
\* manifest with an entry for every discovered file
OutcomeReported ==
    \/ discoveryError
    \/ /\ delivered # <<>>
       /\ \/ delivered[1].err /\ delivered[1].manifest = None
          \/ /\ ~delivered[1].err
             /\ delivered[1].manifest # None
             /\ Len(Val(delivered[1].manifest)) = Len(assets)

\* C17: when the events of the streams and of the encoders are delivered,
\* every build that was started reports an outcome to its caller: a
\* manifest with every discovered file, or a failure
C17_BuildEventuallyReports == BuildStarted ~> OutcomeReported

\* a manifest was delivered for a build whose files included one of zero
\* bytes
C17_Witness ==
    /\ delivered # <<>>
    /\ ~delivered[1].err
    /\ \E i \in DOMAIN pipes :
          /\ pipes[i].size = 0
          /\ results[i] # None
          /\ Val(results[i]).compressed = GzipHeader + GzipTrailer

\* the names of the discovered files, in the order discovery returned them
DiscoveryOrder == [i \in DOMAIN assets |-> relative(Root, assets[i])]

\* C18: the result kept for the i-th discovered file is the entry of that
\* file, and the manifest handed to the caller and published lists the
\* files in the order of discovery, whichever pipeline ended first
C18_ManifestInDiscoveryOrder ==
    /\ \A i \in DOMAIN results :
          results[i] # None => Val(results[i]).name = DiscoveryOrder[i]
    /\ \A d \in Range(delivered) :
          d.manifest # None =>
             [i \in DOMAIN Val(d.manifest) |-> Val(d.manifest)[i].name]
                = DiscoveryOrder
    /\ currentManifest # None =>
          [i \in DOMAIN Manifest |-> Manifest[i].name] = DiscoveryOrder

\* the pipeline of the second file has handed over its entry while that of
\* the first is still reading
C18_Witness ==
    /\ Len(results) = 2
    /\ results[1] = None
    /\ pipes[1].stream = "open"
    /\ results[2] # None
    /\ Val(results[2]).name = DiscoveryOrder[2]

=============================================================================
